---- MODULE Spec2Model ----
(***************************************************************************)
(* Effect engine of the ESP32 NeoPixel controller (src/src/main.cpp).      *)
(*                                                                         *)
(* The strip state, the three dirty flags, the snake cursor, the fade      *)
(* channel, the animator and the pixel buffer are the variables.  The two  *)
(* operations are one HTTP control request (handleControlRequest) and one  *)
(* iteration of loop() (ensureEffectIsRunning followed by delay(1)).       *)
(*                                                                         *)
(* Time.  The code reads millis() and only ever uses differences of two    *)
(* readings (and the test lastSnakeStepMs != 0), so the model keeps the    *)
(* elapsed times: snakeStepAge is millis() - lastSnakeStepMs (NoStep when  *)
(* lastSnakeStepMs is 0) and animator.tickAge is millis() minus the        *)
(* animator's last tick.  Both saturate where the code no longer           *)
(* distinguishes larger values.  Time units are scaled (SnakeStepDelayMs,  *)
(* FadeTimeMin, FadeTimeMax).                                              *)
(*                                                                         *)
(* Specifications.  Spec serves each request between two iterations of     *)
(* loop().  FadeSpec adds the fairness of loop() and serves the requests   *)
(* that stay in Fade.  ScaleSpec starts in Solid from every brightness and *)
(* gray level.  AsyncSpec takes an iteration of loop() statement by        *)
(* statement, with requests served in between.                             *)
(*                                                                         *)
(* Arithmetic.  float products that are converted to uint8_t are computed  *)
(* exactly and truncated; float rounding error is not modelled.            *)
(***************************************************************************)
EXTENDS Integers, Sequences, FiniteSets, TLC

\* ------------------------------------------------------------------------
\* Bounds and program constants
\* ------------------------------------------------------------------------
\* MaxPixelCount (144 in the code), SnakeStepDelayMs (80) and the fade times
\* random(FadeTimeMin, FadeTimeMax) (2000, 4000) are scaled down; MaxLoopDelay
\* bounds the time one loop() iteration may take beyond the body, MaxRequests
\* the number of control requests served in a behaviour.
MaxPixelCount == 6
SnakeSegmentLength == 5
SnakeStepDelayMs == 2
FadeTimeMin == 2
FadeTimeMax == 4
MaxLoopDelay == 2
MaxRequests == 2

DefaultPixelCount == IF 12 <= MaxPixelCount THEN 12 ELSE MaxPixelCount
DefaultBrightness == 160

Min(a, b) == IF a < b THEN a ELSE b

\* ------------------------------------------------------------------------
\* Colors
\* ------------------------------------------------------------------------
RgbColor(r, g, b) == [R |-> r, G |-> g, B |-> b]
Black == RgbColor(0, 0, 0)
DefaultSolidColor == RgbColor(255, 80, 10)

\* static_cast<uint8_t> / static_cast<uint16_t> of an int
U8(x) == x % 256
U16(x) == x % 65536

\* Arduino macro constrain(amt, low, high)
constrain(amt, low, high) ==
  IF amt < low THEN low ELSE IF amt > high THEN high ELSE amt

\* ------------------------------------------------------------------------
\* Strings: a String is a sequence of one-character strings
\* ------------------------------------------------------------------------
UpperChars == <<"A","B","C","D","E","F","G","H","I","J","K","L","M",
                "N","O","P","Q","R","S","T","U","V","W","X","Y","Z">>
LowerChars == <<"a","b","c","d","e","f","g","h","i","j","k","l","m",
                "n","o","p","q","r","s","t","u","v","w","x","y","z">>
DigitChars == <<"0","1","2","3","4","5","6","7","8","9">>

IsUpper(c) == \E i \in 1..26 : UpperChars[i] = c
IsDigit(c) == \E i \in 1..10 : DigitChars[i] = c
DigitVal(c) == (CHOOSE i \in 1..10 : DigitChars[i] = c) - 1

\* (variant: the token is compared as sent)
toLowerCaseSkipped(str) == str

\* String::toLowerCase
toLowerCase(str) ==
  [i \in DOMAIN str |->
     IF IsUpper(str[i])
       THEN LowerChars[CHOOSE k \in 1..26 : UpperChars[k] = str[i]]
       ELSE str[i]]

RECURSIVE SkipSpaces(_, _)
SkipSpaces(str, i) ==
  IF i <= Len(str) /\ str[i] = " " THEN SkipSpaces(str, i + 1) ELSE i

RECURSIVE ParseDigits(_, _, _)
ParseDigits(str, i, acc) ==
  IF i <= Len(str) /\ IsDigit(str[i])
    THEN ParseDigits(str, i + 1, acc * 10 + DigitVal(str[i]))
    ELSE acc

\* String::toInt (atol): leading blanks, an optional sign, then the longest
\* run of digits; 0 when there is none.
toInt(str) ==
  LET i == SkipSpaces(str, 1)
      neg == i <= Len(str) /\ str[i] = "-"
      pos == i <= Len(str) /\ str[i] = "+"
      j == IF neg \/ pos THEN i + 1 ELSE i
      v == ParseDigits(str, j, 0)
  IN IF neg THEN 0 - v ELSE v

\* ------------------------------------------------------------------------
\* Color arithmetic
\* ------------------------------------------------------------------------

\* scaleColor(color, scale) with scale = num/den, 0 <= num <= den after the
\* clamp to [0,1]; each channel is truncated to uint8_t.
scaleColor(color, num, den) ==
  LET n == IF num < 0 THEN 0 ELSE IF num > den THEN den ELSE num
  IN RgbColor(U8((color.R * n) \div den),
              U8((color.G * n) \div den),
              U8((color.B * n) \div den))

\* (variant: the scale falls as the brightness rises)
brightnessScaleInverted(b) == (255 - b) * (255 - b)

\* brightnessScale(): (brightness/255)^2, as the fraction b*b / 65025
brightnessScaleNum(b) == b * b
brightnessScaleDen == 255 * 255

\* applyBrightness(color)
applyBrightness(color, b) ==
  scaleColor(color, brightnessScaleNum(b), brightnessScaleDen)

\* (variant: the floor of 0.002 is applied at brightness 0 too)
brightnessToLuminanceFloored(b) ==
  IF brightnessScaleNum(b) * 500 < 2 * brightnessScaleDen
    THEN [n |-> 1, d |-> 500]
    ELSE [n |-> brightnessScaleNum(b), d |-> 2 * brightnessScaleDen]

\* brightnessToLuminance(): 0 at brightness 0, else max(0.002, scale * 0.5),
\* as the fraction [n, d]
brightnessToLuminance(b) ==
  IF b = 0 THEN [n |-> 0, d |-> 1]
  ELSE IF brightnessScaleNum(b) * 500 < 2 * brightnessScaleDen
         THEN [n |-> 1, d |-> 500]
         ELSE [n |-> brightnessScaleNum(b), d |-> 2 * brightnessScaleDen]

\* One channel of HslColor(h/360, 1.0, L) converted to RgbColor, for L <= 0.5:
\* temp2 = 2L, temp1 = 0; tc is the channel's hue position in degrees.
HslChannel(tc, lum) ==
  LET t == tc % 360
      frac60 == IF t < 60 THEN t
                ELSE IF t < 180 THEN 60
                ELSE IF t < 240 THEN 240 - t
                ELSE 0
  IN U8((255 * 2 * lum.n * frac60) \div (lum.d * 60))

\* RgbColor(HslColor(hue/360, 1.0, luminance))
HslToRgb(hue, lum) ==
  IF lum.n = 0 THEN Black
  ELSE RgbColor(HslChannel(hue + 120, lum),
                HslChannel(hue, lum),
                HslChannel(hue + 240, lum))

\* RgbColor::LinearBlend(left, right, progress), progress = num/den
BlendChannel(l, r, num, den) == U8((l * den + (r - l) * num) \div den)
LinearBlend(left, right, num, den) ==
  RgbColor(BlendChannel(left.R, right.R, num, den),
           BlendChannel(left.G, right.G, num, den),
           BlendChannel(left.B, right.B, num, den))

\* ------------------------------------------------------------------------
\* Program state
\* ------------------------------------------------------------------------
VARIABLES
  stripState,     \* [effect, solidColor, brightness]
  pixelCount,
  fadeToColor,
  snakeDirty,
  snakeHead,
  snakeStepAge,   \* millis() - lastSnakeStepMs, or NoStep when lastSnakeStepMs = 0
  fadeChannels,   \* fadeChannels[0]: [StartingColor, EndingColor]
  solidDirty,
  offDirty,
  animations,     \* NeoPixelAnimator: [active, duration, remaining, tickAge]
  strip,          \* NeoPixelBus: [pixels, dirty, shown]
  snakeSteps,     \* snake steps taken since the last resetSnakeEffect
  last,           \* what the last operation was and what it reported
  requests,       \* number of control requests served so far
  loopPc          \* where loop() stands when its steps are taken one by one

progVars == <<stripState, pixelCount, fadeToColor, snakeDirty, snakeHead,
              snakeStepAge, fadeChannels, solidDirty, offDirty, animations,
              strip>>
vars == <<stripState, pixelCount, fadeToColor, snakeDirty, snakeHead,
          snakeStepAge, fadeChannels, solidDirty, offDirty, animations,
          strip, snakeSteps, last, requests, loopPc>>

EffectMode == {"Fade", "Solid", "Snake", "Off"}
NoStep == -1

\* loop() between two iterations; inside one, `at` names the next statement
\* and num, den, step hold the AnimationParam of a tick being delivered
AtTop == [at |-> "top", num |-> 0, den |-> 1, step |-> 0]
Pixels == 0..(MaxPixelCount - 1)

\* The globals as one record, threaded through the functions below.
Globals ==
  [stripState |-> stripState, pixelCount |-> pixelCount,
   fadeToColor |-> fadeToColor, snakeDirty |-> snakeDirty,
   snakeHead |-> snakeHead, snakeStepAge |-> snakeStepAge,
   fadeChannels |-> fadeChannels, solidDirty |-> solidDirty,
   offDirty |-> offDirty, animations |-> animations, strip |-> strip]

InitGlobals ==
  [stripState |-> [effect |-> "Fade", solidColor |-> DefaultSolidColor,
                   brightness |-> DefaultBrightness],
   pixelCount |-> DefaultPixelCount,
   fadeToColor |-> TRUE,
   snakeDirty |-> TRUE,
   snakeHead |-> 0,
   snakeStepAge |-> NoStep,
   fadeChannels |-> [StartingColor |-> Black, EndingColor |-> Black],
   solidDirty |-> TRUE,
   offDirty |-> TRUE,
   animations |-> [active |-> 0, duration |-> 0, remaining |-> 0, tickAge |-> 0],
   strip |-> [pixels |-> [p \in Pixels |-> Black], dirty |-> FALSE,
              shown |-> [p \in Pixels |-> Black]]]

\* ------------------------------------------------------------------------
\* NeoPixelAnimator and NeoPixelBus (library objects `animations`, `strip`)
\* ------------------------------------------------------------------------
IsAnimating(g) == g.animations.active > 0

\* (variant: the animation is left running)
StopAllSkipped(g) == g

\* animations.StopAll()
StopAll(g) ==
  [g EXCEPT !.animations.remaining = 0, !.animations.active = 0]

\* animations.StartAnimation(0, time, BlendAnimUpdate)
StartAnimation(g, time) ==
  LET a == g.animations
      age == IF a.active = 0 THEN 0 ELSE a.tickAge
      act == IF a.remaining > 0 THEN U16(a.active - 1) ELSE a.active
      dur == IF time = 0 THEN 1 ELSE time
  IN [g EXCEPT !.animations =
        [active |-> U16(act + 1), duration |-> dur, remaining |-> dur,
         tickAge |-> age]]

\* strip.SetPixelColor(pixel, color)
SetPixelColor(g, pixel, color) ==
  IF pixel \in Pixels
    THEN [g EXCEPT !.strip.pixels[pixel] = color, !.strip.dirty = TRUE]
    ELSE g

\* strip.GetPixelColor(pixel)
GetPixelColor(g, pixel) == g.strip.pixels[pixel]

\* strip.Show(): pushes the buffer to the LEDs when it was written since the
\* last Show()
Show(g) ==
  IF g.strip.dirty
    THEN [g EXCEPT !.strip.shown = g.strip.pixels, !.strip.dirty = FALSE]
    ELSE g

\* the passing of t time units
AdvanceTime(g, t) ==
  [g EXCEPT !.snakeStepAge = IF @ = NoStep THEN NoStep
                             ELSE Min(@ + t, SnakeStepDelayMs),
            !.animations.tickAge = Min(@ + t, FadeTimeMax)]

\* ------------------------------------------------------------------------
\* Control surface: the four mutators
\* ------------------------------------------------------------------------
\* (variant: the snake is not marked for a reset)
applyModeFromStringKeepsSnake(g, value) ==
  LET lowered == toLowerCase(value)
      known == lowered \in {<<"s","o","l","i","d">>, <<"o","f","f">>,
                            <<"f","a","d","e">>, <<"s","n","a","k","e">>}
      next == IF lowered = <<"s","o","l","i","d">> THEN "Solid"
              ELSE IF lowered = <<"o","f","f">> THEN "Off"
              ELSE IF lowered = <<"f","a","d","e">> THEN "Fade"
              ELSE IF lowered = <<"s","n","a","k","e">> THEN "Snake"
              ELSE g.stripState.effect
  IN IF ~known THEN [g |-> g, ret |-> FALSE]
     ELSE IF g.stripState.effect = next THEN [g |-> g, ret |-> FALSE]
     ELSE [g |-> [StopAll([g EXCEPT !.stripState.effect = next])
                    EXCEPT !.fadeToColor = TRUE, !.solidDirty = TRUE,
                           !.offDirty = TRUE],
           ret |-> TRUE]

applyModeFromString(g, value) ==
  LET lowered == toLowerCase(value)
      known == lowered \in {<<"s","o","l","i","d">>, <<"o","f","f">>,
                            <<"f","a","d","e">>, <<"s","n","a","k","e">>}
      next == IF lowered = <<"s","o","l","i","d">> THEN "Solid"
              ELSE IF lowered = <<"o","f","f">> THEN "Off"
              ELSE IF lowered = <<"f","a","d","e">> THEN "Fade"
              ELSE IF lowered = <<"s","n","a","k","e">> THEN "Snake"
              ELSE g.stripState.effect
  IN IF ~known THEN [g |-> g, ret |-> FALSE]
     ELSE IF g.stripState.effect = next THEN [g |-> g, ret |-> FALSE]
     ELSE [g |-> [StopAll([g EXCEPT !.stripState.effect = next])
                    EXCEPT !.fadeToColor = TRUE, !.solidDirty = TRUE,
                           !.offDirty = TRUE, !.snakeDirty = TRUE],
           ret |-> TRUE]

\* (variant: the snake is not marked for a redraw)
setSolidColorSolidOnly(g, r, gr, b) ==
  IF g.stripState.solidColor = RgbColor(r, gr, b)
    THEN [g |-> g, ret |-> FALSE]
    ELSE [g |-> [g EXCEPT !.stripState.solidColor = RgbColor(r, gr, b),
                          !.solidDirty = TRUE],
          ret |-> TRUE]

setSolidColor(g, r, gr, b) ==
  IF g.stripState.solidColor = RgbColor(r, gr, b)
    THEN [g |-> g, ret |-> FALSE]
    ELSE [g |-> [g EXCEPT !.stripState.solidColor = RgbColor(r, gr, b),
                          !.solidDirty = TRUE, !.snakeDirty = TRUE],
          ret |-> TRUE]

\* (variant: no early return when the value is the current one)
setBrightnessAlways(g, value) ==
  LET constrained == U8(constrain(value, 0, 255))
  IN [g |-> StopAll([g EXCEPT !.stripState.brightness = constrained,
                              !.solidDirty = TRUE, !.offDirty = TRUE,
                              !.snakeDirty = TRUE]),
      ret |-> TRUE]

setBrightness(g, value) ==
  LET constrained == U8(constrain(value, 0, 255))
  IN IF g.stripState.brightness = constrained
       THEN [g |-> g, ret |-> FALSE]
       ELSE [g |-> StopAll([g EXCEPT !.stripState.brightness = constrained,
                                     !.solidDirty = TRUE, !.offDirty = TRUE,
                                     !.snakeDirty = TRUE]),
             ret |-> TRUE]

setPixelCount(g, count) ==
  LET newCount == U16(constrain(count, 1, MaxPixelCount))
  IN IF g.pixelCount = newCount
       THEN [g |-> g, ret |-> FALSE]
       ELSE [g |-> StopAll([g EXCEPT !.pixelCount = newCount,
                                     !.solidDirty = TRUE, !.offDirty = TRUE,
                                     !.snakeDirty = TRUE]),
             ret |-> TRUE]

\* ------------------------------------------------------------------------
\* HTTP control request
\* ------------------------------------------------------------------------
\* A request is a function from the names of the parameters it carries to
\* their values.
hasParam(req, name) == name \in DOMAIN req

modeToString(mode) ==
  IF mode = "Solid" THEN <<"s","o","l","i","d">>
  ELSE IF mode = "Snake" THEN <<"s","n","a","k","e">>
  ELSE IF mode = "Off" THEN <<"o","f","f">>
  ELSE <<"f","a","d","e">>

\* buildStateJson(), without the ip field
buildStateJson(g) ==
  [mode |-> modeToString(g.stripState.effect),
   brightness |-> g.stripState.brightness,
   color |-> g.stripState.solidColor,
   count |-> g.pixelCount]

\* the argument expressions of the three numeric mutator calls
\* (variant: the value is cast without being constrained first)
BrightnessArgUnclamped(value) == U8(value)

BrightnessArg(value) == U8(constrain(value, 0, 255))
CountArg(value) == U16(constrain(value, 1, MaxPixelCount))
ChannelArg(value) == U8(constrain(value, 0, 255))

NotCalled(g) == [g |-> g, ret |-> FALSE]

\* handleControlRequest(request): the calls it makes, in order, as
\* [fn, pre, post, ret] records.
ControlCalls(g, req) ==
  LET c1 == IF hasParam(req, "mode")
              THEN applyModeFromString(g, req["mode"]) ELSE NotCalled(g)
      c2 == IF hasParam(req, "brightness")
              THEN setBrightness(c1.g, BrightnessArg(toInt(req["brightness"])))
              ELSE NotCalled(c1.g)
      c3 == IF hasParam(req, "count")
              THEN setPixelCount(c2.g, CountArg(toInt(req["count"])))
              ELSE NotCalled(c2.g)
      c4 == IF hasParam(req, "r") /\ hasParam(req, "g") /\ hasParam(req, "b")
              THEN setSolidColor(c3.g, ChannelArg(toInt(req["r"])),
                                 ChannelArg(toInt(req["g"])),
                                 ChannelArg(toInt(req["b"])))
              ELSE NotCalled(c3.g)
      rec(fn, pre, c) == [fn |-> fn, pre |-> pre, post |-> c.g, ret |-> c.ret]
  IN (IF hasParam(req, "mode") THEN <<rec("setMode", g, c1)>> ELSE <<>>)
     \o (IF hasParam(req, "brightness")
           THEN <<rec("setBrightness", c1.g, c2)>> ELSE <<>>)
     \o (IF hasParam(req, "count")
           THEN <<rec("setPixelCount", c2.g, c3)>> ELSE <<>>)
     \o (IF hasParam(req, "r") /\ hasParam(req, "g") /\ hasParam(req, "b")
           THEN <<rec("setSolidColor", c3.g, c4)>> ELSE <<>>)

handleControlRequest(g, req) ==
  LET calls == ControlCalls(g, req)
      post == IF calls = <<>> THEN g ELSE calls[Len(calls)].post
      changed == \E i \in DOMAIN calls : calls[i].ret
  IN [g |-> post, changed |-> changed, payload |-> buildStateJson(post)]

\* ------------------------------------------------------------------------
\* Render driver
\* ------------------------------------------------------------------------
\* (variant: the second loop, which blacks out the inactive pixels, is missing)
writeColorToActivePixelsNoClear(g, color) ==
  [g EXCEPT !.strip.pixels =
              [p \in Pixels |-> IF p < g.pixelCount THEN color
                                ELSE g.strip.pixels[p]],
            !.strip.dirty = TRUE]

writeColorToActivePixels(g, color) ==
  [g EXCEPT !.strip.pixels =
              [p \in Pixels |-> IF p < g.pixelCount THEN color ELSE Black],
            !.strip.dirty = TRUE]

\* the frames an operation latched: Show() appends one when it pushes
ShowFrames(g, frames) ==
  IF g.strip.dirty THEN Append(frames, g.strip.pixels) ELSE frames

\* (variant: the color is written without the brightness scale)
applySolidColorUnscaled(g) ==
  LET w == writeColorToActivePixels(g, g.stripState.solidColor)
  IN [Show(w) EXCEPT !.solidDirty = FALSE, !.offDirty = TRUE]

applySolidColor(g) ==
  LET w == writeColorToActivePixels(
             g, applyBrightness(g.stripState.solidColor, g.stripState.brightness))
  IN [Show(w) EXCEPT !.solidDirty = FALSE, !.offDirty = TRUE]

\* (variant: offDirty is not cleared)
turnStripOffKeepsDirty(g) ==
  LET w == writeColorToActivePixels(g, Black)
  IN [Show(w) EXCEPT !.solidDirty = TRUE]

turnStripOff(g) ==
  LET w == writeColorToActivePixels(g, Black)
  IN [Show(w) EXCEPT !.offDirty = FALSE, !.solidDirty = TRUE]

\* (variant: the reset leaves the head where it was)
resetSnakeEffectKeepsHead(g) ==
  LET w == writeColorToActivePixels(
             [g EXCEPT !.snakeStepAge = NoStep, !.snakeDirty = FALSE], Black)
  IN Show(w)

resetSnakeEffect(g) ==
  LET w == writeColorToActivePixels(
             [g EXCEPT !.snakeHead = 0, !.snakeStepAge = NoStep,
                       !.snakeDirty = FALSE], Black)
  IN Show(w)

\* (variant: the segment is drawn without the falloff)
SnakeSegmentFlat(g, baseColor, offset) ==
  [g EXCEPT !.strip.pixels =
              [p \in Pixels |->
                 IF p >= g.snakeHead + offset /\ p < g.snakeHead + SnakeSegmentLength
                    /\ p < g.pixelCount
                   THEN baseColor ELSE g.strip.pixels[p]],
            !.strip.dirty = TRUE]

\* the for loop of runSnakeEffect, from `offset` on
RECURSIVE SnakeSegment(_, _, _)
SnakeSegment(g, baseColor, offset) ==
  IF offset >= SnakeSegmentLength THEN g
  ELSE LET pixel == U16(g.snakeHead + offset)
       IN IF pixel >= g.pixelCount THEN g
          ELSE SnakeSegment(
                 SetPixelColor(g, pixel,
                               scaleColor(baseColor, SnakeSegmentLength - offset,
                                          SnakeSegmentLength)),
                 baseColor, offset + 1)

\* (variant: the head wraps one pixel late)
NextSnakeHeadLate(head, count) == (head + 1) % (count + 1)

\* snakeHead = (snakeHead + 1) % pixelCount
NextSnakeHead(head, count) == (head + 1) % count

\* runSnakeEffect(): [g, frames, reset, stepped]
runSnakeEffect(g) ==
  LET r == IF g.snakeDirty THEN resetSnakeEffect(g) ELSE g
      f1 == IF g.snakeDirty THEN <<r.strip.pixels>> ELSE <<>>
  IN IF r.snakeStepAge # NoStep /\ r.snakeStepAge < SnakeStepDelayMs
       THEN [g |-> r, frames |-> f1, reset |-> g.snakeDirty, stepped |-> FALSE]
       ELSE LET baseColor == applyBrightness(r.stripState.solidColor,
                                             r.stripState.brightness)
                w == SnakeSegment(
                       writeColorToActivePixels([r EXCEPT !.snakeStepAge = 0], Black),
                       baseColor, 0)
            IN [g |-> [Show(w) EXCEPT
                         !.snakeHead = NextSnakeHead(w.snakeHead, w.pixelCount)],
                frames |-> ShowFrames(w, f1),
                reset |-> g.snakeDirty, stepped |-> TRUE]

\* ------------------------------------------------------------------------
\* Fade scheduler
\* ------------------------------------------------------------------------
\* (variant: the blend is written whatever the effect)
BlendAnimUpdateUnguarded(g, num, den) ==
  writeColorToActivePixels(
    g, LinearBlend(g.fadeChannels.StartingColor, g.fadeChannels.EndingColor,
                   num, den))

\* BlendAnimUpdate(param), param.progress = num/den
BlendAnimUpdate(g, num, den) ==
  LET updatedColor == LinearBlend(g.fadeChannels.StartingColor,
                                  g.fadeChannels.EndingColor, num, den)
  IN IF g.stripState.effect = "Fade"
       THEN writeColorToActivePixels(g, updatedColor)
       ELSE g

\* (variant: a tick does not advance the animation)
UpdateAnimationsStalled(g) ==
  LET a == g.animations
  IN IF a.tickAge < 1 \/ a.remaining = 0
       THEN [g |-> [g EXCEPT !.animations.tickAge = 0], completed |-> FALSE]
       ELSE [g |-> [BlendAnimUpdate(g, a.duration - a.remaining, a.duration)
                      EXCEPT !.animations.tickAge = 0],
             completed |-> FALSE]

\* animations.UpdateAnimations(): [g, completed]
UpdateAnimations(g) ==
  LET a == g.animations
      delta == a.tickAge
  IN IF delta < 1 THEN [g |-> g, completed |-> FALSE]
     ELSE IF a.remaining > delta
       THEN [g |-> [BlendAnimUpdate(g, a.duration - a.remaining, a.duration)
                      EXCEPT !.animations.remaining = a.remaining - delta,
                             !.animations.tickAge = 0],
             completed |-> FALSE]
     ELSE IF a.remaining > 0
       THEN [g |-> [BlendAnimUpdate(g, 1, 1)
                      EXCEPT !.animations.remaining = 0,
                             !.animations.active = a.active - 1,
                             !.animations.tickAge = 0],
             completed |-> TRUE]
     ELSE [g |-> [g EXCEPT !.animations.tickAge = 0], completed |-> FALSE]

\* (variant: the start point of the previous cycle is kept)
FadeStartColorKept(g) == g.fadeChannels.StartingColor

\* the start point FadeInFadeOutRinseRepeat picks
FadeStartColor(g) ==
  IF IsAnimating(g) THEN g.fadeChannels.EndingColor ELSE GetPixelColor(g, 0)

\* FadeInFadeOutRinseRepeat(luminance) with random(360) = hue and
\* random(2000, 4000) = time
FadeInFadeOutRinseRepeat(g, luminance, hue, time) ==
  LET target == HslToRgb(hue, luminance)
  IN StartAnimation(
       [g EXCEPT !.fadeChannels = [StartingColor |-> FadeStartColor(g),
                                   EndingColor |-> target]],
       time)

\* ------------------------------------------------------------------------
\* Mode dispatch
\* ------------------------------------------------------------------------
NoEvents(g) ==
  [g |-> g, branch |-> "none", frames |-> <<>>,
   started |-> FALSE, completed |-> FALSE, reset |-> FALSE, stepped |-> FALSE]

\* ensureEffectIsRunning(); `elapsed` is the time that passes inside it before
\* its second reading of millis()
ensureEffectIsRunning(g, hue, time, elapsed) ==
  LET effect == g.stripState.effect
  IN CASE effect = "Fade" ->
            LET d == [g EXCEPT !.offDirty = TRUE, !.solidDirty = TRUE]
                s == IF ~IsAnimating(d)
                       THEN FadeInFadeOutRinseRepeat(
                              d, brightnessToLuminance(d.stripState.brightness),
                              hue, time)
                       ELSE d
                u == UpdateAnimations(AdvanceTime(s, elapsed))
            IN [NoEvents(Show(u.g)) EXCEPT
                  !.branch = "Fade",
                  !.frames = ShowFrames(u.g, <<>>),
                  !.started = ~IsAnimating(d),
                  !.completed = u.completed]
       [] effect = "Solid" ->
            LET s == AdvanceTime(IF IsAnimating(g) THEN StopAll(g) ELSE g, elapsed)
            IN IF s.solidDirty
                 THEN [NoEvents(applySolidColor(s)) EXCEPT
                         !.branch = "Solid",
                         !.frames = <<applySolidColor(s).strip.shown>>]
                 ELSE [NoEvents(s) EXCEPT !.branch = "Solid"]
       [] effect = "Snake" ->
            LET s == AdvanceTime(IF IsAnimating(g) THEN StopAll(g) ELSE g, elapsed)
                r == runSnakeEffect([s EXCEPT !.offDirty = TRUE, !.solidDirty = TRUE])
            IN [NoEvents(r.g) EXCEPT !.branch = "Snake", !.frames = r.frames,
                                     !.reset = r.reset, !.stepped = r.stepped]
       [] effect = "Off" ->
            LET s == AdvanceTime(IF IsAnimating(g) THEN StopAll(g) ELSE g, elapsed)
            IN IF s.offDirty
                 THEN [NoEvents(turnStripOff(s)) EXCEPT
                         !.branch = "Off",
                         !.frames = <<turnStripOff(s).strip.shown>>]
                 ELSE [NoEvents(s) EXCEPT !.branch = "Off"]

\* ------------------------------------------------------------------------
\* Inputs
\* ------------------------------------------------------------------------
Hues == {0, 120}
FadeTimes == FadeTimeMin..(FadeTimeMax - 1)

ModeTokens == {<<"f","a","d","e">>, <<"S","o","l","i","d">>,
               <<"S","N","A","K","E">>, <<"o","F","f">>,
               <<"p","u","r","p","l","e">>}
BrightnessTokens == {<<"0">>, <<"3","0","0">>, <<"a","b","c">>}
CountTokens == {<<"0">>, <<"1","0","0","0">>, <<"3">>, <<"x">>}
ColorTokens == {<< <<"-","5">>, <<"3","0","0">>, <<"z">> >>}

Requests ==
  {("mode" :> m) : m \in ModeTokens}
  \cup {("brightness" :> b) : b \in BrightnessTokens}
  \cup {("count" :> c) : c \in CountTokens}
  \cup {("r" :> c[1]) @@ ("g" :> c[2]) @@ ("b" :> c[3]) : c \in ColorTokens}
  \cup {("r" :> <<"9">>) @@ ("g" :> <<"9">>)}
  \cup {("mode" :> <<"s","o","l","i","d">>) @@ ("brightness" :> <<"2","5","5">>)
          @@ ("r" :> <<"2","5","5">>) @@ ("g" :> <<"0">>) @@ ("b" :> <<"0">>)}
  \cup {("mode" :> <<"p","u","r","p","l","e">>) @@ ("count" :> <<"2">>)}

NoRequest == ("none" :> <<>>)

\* ------------------------------------------------------------------------
\* Specification
\* ------------------------------------------------------------------------
Assign(g) ==
  /\ stripState' = g.stripState
  /\ pixelCount' = g.pixelCount
  /\ fadeToColor' = g.fadeToColor
  /\ snakeDirty' = g.snakeDirty
  /\ snakeHead' = g.snakeHead
  /\ snakeStepAge' = g.snakeStepAge
  /\ fadeChannels' = g.fadeChannels
  /\ solidDirty' = g.solidDirty
  /\ offDirty' = g.offDirty
  /\ animations' = g.animations
  /\ strip' = g.strip

NoLast ==
  [op |-> "setup", req |-> NoRequest, changed |-> FALSE,
   payload |-> buildStateJson(InitGlobals), wasAnimating |-> FALSE,
   staleLit |-> FALSE, wasLit |-> FALSE, staleHead |-> FALSE,
   branch |-> "none", blend |-> Black,
   frames |-> <<>>, started |-> FALSE, completed |-> FALSE,
   reset |-> FALSE, stepped |-> FALSE]

Init ==
  /\ stripState = InitGlobals.stripState
  /\ pixelCount = InitGlobals.pixelCount
  /\ fadeToColor = InitGlobals.fadeToColor
  /\ snakeDirty = InitGlobals.snakeDirty
  /\ snakeHead = InitGlobals.snakeHead
  /\ snakeStepAge = InitGlobals.snakeStepAge
  /\ fadeChannels = InitGlobals.fadeChannels
  /\ solidDirty = InitGlobals.solidDirty
  /\ offDirty = InitGlobals.offDirty
  /\ animations = InitGlobals.animations
  /\ strip = InitGlobals.strip
  /\ snakeSteps = 0
  /\ last = NoLast
  /\ requests = 0
  /\ loopPc = AtTop

\* One request served by the /api/control route
Control(req) ==
  /\ requests < MaxRequests
  /\ \E r \in {handleControlRequest(Globals, req)} :
        /\ Assign(r.g)
        /\ last' = [NoLast EXCEPT !.op = "control", !.req = req,
                                  !.changed = r.changed, !.payload = r.payload,
                                  !.wasAnimating = IsAnimating(Globals)]
  /\ requests' = requests + 1
  /\ UNCHANGED <<snakeSteps, loopPc>>

\* some pixel is lit on the LEDs
Lit(g) == \E p \in Pixels : g.strip.shown[p] # Black

\* a pixel beyond the active count is lit on the LEDs
StaleLit(g) == \E p \in Pixels : p >= g.pixelCount /\ g.strip.shown[p] # Black

\* the step counter: zeroed by a reset, then one more per step, up to StepCap
StepCap == MaxPixelCount + 1
CountSteps(n, reset, stepped) ==
  LET base == IF reset THEN 0 ELSE n
  IN IF stepped THEN Min(base + 1, StepCap) ELSE base

\* the random draws of FadeInFadeOutRinseRepeat are made only when it runs
StartsFade(g) == g.stripState.effect = "Fade" /\ ~IsAnimating(g)

\* One iteration of loop(): ensureEffectIsRunning(); delay(1);
Loop ==
  /\ loopPc = AtTop
  /\ \E hue \in IF StartsFade(Globals) THEN Hues ELSE {0},
        time \in IF StartsFade(Globals) THEN FadeTimes ELSE {FadeTimeMin},
        elapsed \in IF stripState.effect = "Fade" THEN 0..1 ELSE {0},
        delay \in 1..MaxLoopDelay :
       \E r \in {ensureEffectIsRunning(Globals, hue, time, elapsed)} :
       \E g \in {AdvanceTime(r.g, delay)} :
         /\ Assign(g)
         /\ last' = [NoLast EXCEPT !.op = "loop", !.payload = last.payload,
                                   !.wasAnimating = IsAnimating(Globals),
                                   !.staleLit = StaleLit(Globals),
                                   !.wasLit = Lit(Globals),
                                   !.staleHead = snakeHead >= pixelCount,
                                   !.branch = r.branch,
                                   !.frames = r.frames, !.started = r.started,
                                   !.completed = r.completed, !.reset = r.reset,
                                   !.stepped = r.stepped]
         /\ snakeSteps' = CountSteps(snakeSteps, r.reset, r.stepped)
         /\ UNCHANGED <<requests, loopPc>>

Next == (\E req \in Requests : Control(req)) \/ Loop

Spec == Init /\ [][Next]_vars

\* ------------------------------------------------------------------------
\* Properties
\* ------------------------------------------------------------------------
BlackFrom(px, c) == \A p \in Pixels : p >= c => px[p] = Black
BlackBelow(px, c) == \A p \in Pixels : p < c => px[p] = Black

\* the value of a range nearest to v
Nearest(v, lo, hi) == IF v < lo THEN lo ELSE IF v > hi THEN hi ELSE v

\* the place of a letter in the alphabet, 0 for any other character
LetterIndex(c) ==
  IF \E i \in 1..26 : UpperChars[i] = c \/ LowerChars[i] = c
    THEN CHOOSE i \in 1..26 : UpperChars[i] = c \/ LowerChars[i] = c
    ELSE 0
SameIgnoringCase(a, b) ==
  /\ Len(a) = Len(b)
  /\ \A i \in 1..Len(a) :
       \/ a[i] = b[i]
       \/ (LetterIndex(a[i]) > 0 /\ LetterIndex(a[i]) = LetterIndex(b[i]))
ValidModeToken(tok) == \E m \in EffectMode : SameIgnoringCase(tok, modeToString(m))
ModeOfToken(tok) == CHOOSE m \in EffectMode : SameIgnoringCase(tok, modeToString(m))

\* C1: every frame a loop iteration latches has all pixels at or beyond
\* pixelCount black, whatever the mode and whatever requests came before.
C1_InactivePixelsBlackAfterRender ==
  last.op = "loop" =>
    \A i \in DOMAIN last.frames : BlackFrom(last.frames[i], pixelCount)

\* a loop iteration latched a frame while a pixel beyond the (reduced) count
\* was still lit on the LEDs
C1_Witness ==
  /\ last.op = "loop"
  /\ last.staleLit
  /\ last.frames # <<>>
  /\ pixelCount < MaxPixelCount
  /\ strip.shown[0] # Black

\* what a mutator call leaves alone when it returns false
C2_RequestedIsCurrent(c, req) ==
  CASE c.fn = "setMode" ->
         SameIgnoringCase(req["mode"], modeToString(c.pre.stripState.effect))
    [] c.fn = "setBrightness" ->
         Nearest(toInt(req["brightness"]), 0, 255) = c.pre.stripState.brightness
    [] c.fn = "setPixelCount" ->
         Nearest(toInt(req["count"]), 1, MaxPixelCount) = c.pre.pixelCount
    [] c.fn = "setSolidColor" ->
         RgbColor(Nearest(toInt(req["r"]), 0, 255),
                  Nearest(toInt(req["g"]), 0, 255),
                  Nearest(toInt(req["b"]), 0, 255)) = c.pre.stripState.solidColor

\* C2: a mutator called with the value that is already current returns false
\* and changes nothing: strip state, pixel count, dirty flags, snake cursor
\* and the animation in flight are as before the call.
C2_NoChangeIsNoOp ==
  [][last'.op = "control" =>
       LET calls == ControlCalls(Globals, last'.req)
       IN /\ \A i \in DOMAIN calls :
               C2_RequestedIsCurrent(calls[i], last'.req) =>
                 (calls[i].ret = FALSE /\ calls[i].post = calls[i].pre)
          /\ (\A i \in DOMAIN calls : C2_RequestedIsCurrent(calls[i], last'.req))
               => (UNCHANGED progVars /\ last'.changed = FALSE)]_vars

\* brightness 300 (clamped to 255) arrives while brightness is 255 and a blend
\* is in flight: no change is reported and the blend goes on
C2_Witness ==
  /\ last.op = "control"
  /\ last.req = ("brightness" :> <<"3","0","0">>)
  /\ last.changed = FALSE
  /\ last.wasAnimating
  /\ IsAnimating(Globals)
  /\ stripState.brightness = 255

\* C3: a mode token that is none of fade, solid, snake, off (in any letter
\* case) changes nothing, reports no change and the response shows the prior
\* mode; a valid token in any letter case selects its mode.
C3_InvalidModeIgnored ==
  [][(last'.op = "control" /\ hasParam(last'.req, "mode")) =>
       LET tok == last'.req["mode"]
           c == ControlCalls(Globals, last'.req)[1]
       IN IF ValidModeToken(tok)
            THEN /\ c.post.stripState.effect = ModeOfToken(tok)
                 /\ last'.payload.mode = modeToString(ModeOfToken(tok))
            ELSE /\ c.ret = FALSE
                 /\ c.post = c.pre
                 /\ last'.payload.mode = modeToString(stripState.effect)
                 /\ DOMAIN last'.req = {"mode"} =>
                      (UNCHANGED progVars /\ last'.changed = FALSE)]_vars

\* mode=purple arrives in Snake mode after a frame was drawn: the mode stays
\* Snake, the response says snake, and snakeDirty stays clear
C3_Witness ==
  /\ last.op = "control"
  /\ last.req = ("mode" :> <<"p","u","r","p","l","e">>)
  /\ last.changed = FALSE
  /\ stripState.effect = "Snake"
  /\ last.payload.mode = <<"s","n","a","k","e">>
  /\ ~snakeDirty

Numeric == {"setSolidColor", "setBrightness", "setPixelCount"}
AllDirty(g) == g.solidDirty /\ g.offDirty /\ g.snakeDirty

\* the globals after the step, and that the last call of a request is what
\* the step stored
GlobalsNext ==
  [stripState |-> stripState', pixelCount |-> pixelCount',
   fadeToColor |-> fadeToColor', snakeDirty |-> snakeDirty',
   snakeHead |-> snakeHead', snakeStepAge |-> snakeStepAge',
   fadeChannels |-> fadeChannels', solidDirty |-> solidDirty',
   offDirty |-> offDirty', animations |-> animations', strip |-> strip']
StoredLastCall(calls) == calls # <<>> => calls[Len(calls)].post = GlobalsNext

\* C4 as claimed: a color, brightness or count change leaves solidDirty,
\* offDirty and snakeDirty all true.
C4_AllThreeDirtyAfterChange ==
  [][last'.op = "control" =>
       LET calls == ControlCalls(Globals, last'.req)
       IN \A i \in DOMAIN calls :
            (calls[i].fn \in Numeric /\ calls[i].ret) => AllDirty(calls[i].post)]_vars

\* C4 as amended: a brightness or count change leaves all three flags true;
\* a color change leaves solidDirty and snakeDirty true and offDirty as it was.
C4_DirtyAfterChange ==
  [][last'.op = "control" =>
       LET calls == ControlCalls(Globals, last'.req)
       IN /\ StoredLastCall(calls)
          /\ \A i \in DOMAIN calls :
               LET c == calls[i]
               IN /\ (c.fn \in {"setBrightness", "setPixelCount"} /\ c.ret)
                       => AllDirty(c.post)
                  /\ (c.fn = "setSolidColor" /\ c.ret)
                       => /\ c.post.solidDirty
                          /\ c.post.snakeDirty
                          /\ c.post.offDirty = c.pre.offDirty]_vars

\* the color was changed in Off mode after the strip was blanked: offDirty is
\* still clear, the other two flags are set
C4_Witness ==
  /\ last.op = "control"
  /\ DOMAIN last.req = {"r", "g", "b"}
  /\ last.changed
  /\ stripState.effect = "Off"
  /\ ~offDirty
  /\ solidDirty
  /\ snakeDirty

\* C5: when setMode changes the effect or setBrightness changes the
\* brightness, no animation is in flight when the mutator returns, nor when
\* the request has been served.
C5_ChangeStopsAnimation ==
  [][last'.op = "control" =>
       LET calls == ControlCalls(Globals, last'.req)
       IN \A i \in DOMAIN calls :
            (calls[i].fn \in {"setMode", "setBrightness"} /\ calls[i].ret)
              => (~IsAnimating(calls[i].post) /\ animations'.active = 0
                  /\ animations'.remaining = 0)]_vars

\* a brightness change arrived while a blend was in flight and stopped it
C5_Witness ==
  /\ last.op = "control"
  /\ DOMAIN last.req = {"brightness"}
  /\ last.changed
  /\ last.wasAnimating
  /\ ~IsAnimating(Globals)
  /\ stripState.effect = "Fade"

\* C6: brightness, pixel count and color channels stay in their ranges, and a
\* request's integer is stored as the nearest value of its range.
C6_ClampedToRange ==
  /\ stripState.brightness \in 0..255
  /\ pixelCount \in 1..MaxPixelCount
  /\ stripState.solidColor.R \in 0..255
  /\ stripState.solidColor.G \in 0..255
  /\ stripState.solidColor.B \in 0..255
  /\ last.op = "control" =>
       /\ hasParam(last.req, "brightness") =>
            stripState.brightness = Nearest(toInt(last.req["brightness"]), 0, 255)
       /\ hasParam(last.req, "count") =>
            pixelCount = Nearest(toInt(last.req["count"]), 1, MaxPixelCount)
       /\ {"r", "g", "b"} \subseteq DOMAIN last.req =>
            stripState.solidColor =
              RgbColor(Nearest(toInt(last.req["r"]), 0, 255),
                       Nearest(toInt(last.req["g"]), 0, 255),
                       Nearest(toInt(last.req["b"]), 0, 255))

\* brightness=300 was stored as 255
C6_Witness ==
  /\ last.op = "control"
  /\ hasParam(last.req, "brightness")
  /\ toInt(last.req["brightness"]) = 300
  /\ last.changed
  /\ stripState.brightness = 255

\* a parameter value that is not an optionally signed run of digits
IsNumeric(str) ==
  LET body == IF str # <<>> /\ str[1] \in {"-", "+"} THEN Tail(str) ELSE str
  IN body # <<>> /\ \A i \in 1..Len(body) : IsDigit(body[i])
Malformed(str) == ~IsNumeric(str)

\* C7 as claimed: a malformed brightness, count or r/g/b value leaves its
\* field unchanged, and a request made only of such values changes nothing.
C7_MalformedValueIgnored ==
  [][last'.op = "control" =>
       LET req == last'.req
           badB == hasParam(req, "brightness") /\ Malformed(req["brightness"])
           badC == hasParam(req, "count") /\ Malformed(req["count"])
           badRgb == /\ {"r", "g", "b"} \subseteq DOMAIN req
                     /\ \E n \in {"r", "g", "b"} : Malformed(req[n])
       IN /\ badB => stripState'.brightness = stripState.brightness
          /\ badC => pixelCount' = pixelCount
          /\ badRgb => stripState'.solidColor = stripState.solidColor
          /\ ((badB /\ DOMAIN req = {"brightness"})
              \/ (badC /\ DOMAIN req = {"count"})
              \/ (badRgb /\ DOMAIN req = {"r", "g", "b"}))
               => (UNCHANGED progVars /\ last'.changed = FALSE)]_vars

\* C8: a blend cycle started by the loop iteration right after the one that
\* completed the previous cycle starts from that cycle's EndingColor; every
\* cycle, the first one included, starts from the color of pixel 0 as last
\* displayed.
C8_FadeContinuity ==
  [][(last'.op = "loop" /\ last'.started) =>
       /\ fadeChannels'.StartingColor = strip.shown[0]
       /\ (last.op = "loop" /\ last.completed) =>
            fadeChannels'.StartingColor = fadeChannels.EndingColor]_vars

\* with no request ever served, a cycle was started from a lit color: the
\* EndingColor of the cycle completed just before
C8_Witness ==
  /\ requests = 0
  /\ last.op = "loop"
  /\ last.started
  /\ fadeChannels.StartingColor # Black
  /\ fadeChannels.EndingColor # fadeChannels.StartingColor

\* C9 as claimed: at brightness 0 every frame a loop iteration latches has
\* all active pixels black, in every mode.
C9_BlackAtZeroBrightness ==
  (last.op = "loop" /\ stripState.brightness = 0) =>
    \A i \in DOMAIN last.frames : BlackBelow(last.frames[i], pixelCount)

\* C9 as amended: at brightness 0 every frame latched in Solid, Snake or Off
\* has all active pixels black; in Fade every blend in flight has a black
\* EndingColor, and the frame latched when it completes is black.
C9_BlackAtZeroBrightnessAmended ==
  stripState.brightness = 0 =>
    /\ (last.op = "loop" /\ stripState.effect # "Fade") =>
         \A i \in DOMAIN last.frames : BlackBelow(last.frames[i], pixelCount)
    /\ (stripState.effect = "Fade" /\ IsAnimating(Globals)) =>
         fadeChannels.EndingColor = Black
    /\ (stripState.effect = "Fade" /\ last.op = "loop" /\ last.completed) =>
         /\ fadeChannels.EndingColor = Black
         /\ \A i \in DOMAIN last.frames : BlackBelow(last.frames[i], pixelCount)

\* at brightness 0 in Fade a blend from a lit color has completed on black
C9_Witness ==
  /\ stripState.brightness = 0
  /\ stripState.effect = "Fade"
  /\ last.op = "loop"
  /\ last.completed
  /\ last.frames # <<>>
  /\ fadeChannels.StartingColor # Black
  /\ BlackBelow(strip.shown, pixelCount)

\* C10: with no reset pending, the head is 0 after exactly pixelCount steps
\* from the reset and not 0 after fewer (but at least one) steps; with
\* pixelCount = 1 the head is always 0 and only pixel 0 is ever latched lit.
C10_SnakeHeadWraps ==
  /\ (~snakeDirty /\ snakeSteps = pixelCount) => snakeHead = 0
  /\ (~snakeDirty /\ snakeSteps > 0 /\ snakeSteps < pixelCount) => snakeHead # 0
  /\ (~snakeDirty /\ pixelCount = 1) => snakeHead = 0
  /\ (last.op = "loop" /\ stripState.effect = "Snake" /\ pixelCount = 1) =>
       \A i \in DOMAIN last.frames : BlackFrom(last.frames[i], 1)

\* the head is back at 0 after pixelCount steps on a strip of three or more
C10_Witness ==
  /\ ~snakeDirty
  /\ pixelCount >= 3
  /\ snakeSteps = pixelCount
  /\ snakeHead = 0
  /\ last.op = "loop"
  /\ last.stepped

\* the active pixels of a buffer all hold color c
ActiveAre(px, count, c) == \A p \in Pixels : p < count => px[p] = c

\* C11: a request that carries mode=solid, a brightness and r, g, b is
\* answered with mode solid and that brightness and color (clamped); after
\* every loop iteration in Solid, solidDirty is false; and as long as
\* solidDirty is false in Solid (until a mutator changes something) every
\* active pixel, in the buffer and on the LEDs, holds
\* applyBrightness(solidColor).
C11_SolidScenario ==
  /\ (/\ last.op = "control"
      /\ {"mode", "brightness", "r", "g", "b"} \subseteq DOMAIN last.req
      /\ SameIgnoringCase(last.req["mode"], <<"s","o","l","i","d">>)) =>
       /\ last.payload.mode = <<"s","o","l","i","d">>
       /\ last.payload.brightness = Nearest(toInt(last.req["brightness"]), 0, 255)
       /\ last.payload.color =
            RgbColor(Nearest(toInt(last.req["r"]), 0, 255),
                     Nearest(toInt(last.req["g"]), 0, 255),
                     Nearest(toInt(last.req["b"]), 0, 255))
       /\ last.payload = buildStateJson(Globals)
  /\ (last.op = "loop" /\ stripState.effect = "Solid") => ~solidDirty
  /\ (stripState.effect = "Solid" /\ ~solidDirty) =>
       LET c == applyBrightness(stripState.solidColor, stripState.brightness)
       IN /\ ActiveAre(strip.pixels, pixelCount, c)
          /\ ActiveAre(strip.shown, pixelCount, c)
          /\ ~strip.dirty

\* after mode=solid with 255,0,0 at brightness 255 and a loop iteration, the
\* LEDs show pure red and a second iteration has latched nothing more
C11_Witness ==
  /\ stripState.effect = "Solid"
  /\ stripState.solidColor = RgbColor(255, 0, 0)
  /\ stripState.brightness = 255
  /\ last.op = "loop"
  /\ last.frames = <<>>
  /\ ~solidDirty
  /\ ActiveAre(strip.shown, pixelCount, RgbColor(255, 0, 0))

AllBlack == [p \in Pixels |-> Black]

\* C13: a setMode call that switches into Off leaves offDirty true, and so
\* does the request it is part of; a loop iteration in Off with offDirty set
\* writes black to every pixel, latches that frame and clears offDirty; a loop
\* iteration in Off with offDirty clear writes nothing and latches nothing;
\* after every loop iteration in Off, offDirty is false and buffer and LEDs
\* are black.
C13_OffMode ==
  [][/\ last'.op = "control" =>
          LET calls == ControlCalls(Globals, last'.req)
          IN \A i \in DOMAIN calls :
               (/\ calls[i].fn = "setMode"
                /\ calls[i].ret
                /\ calls[i].post.stripState.effect = "Off")
                 => (calls[i].post.offDirty /\ offDirty')
     /\ (last'.op = "loop" /\ stripState.effect = "Off" /\ offDirty) =>
          /\ last'.frames = <<AllBlack>>
          /\ strip'.pixels = AllBlack
          /\ strip'.shown = AllBlack
          /\ ~strip'.dirty
          /\ ~offDirty'
     /\ (last'.op = "loop" /\ stripState.effect = "Off" /\ ~offDirty) =>
          /\ last'.frames = <<>>
          /\ strip' = strip
          /\ ~offDirty'
     /\ (last'.op = "loop" /\ stripState'.effect = "Off") =>
          /\ ~offDirty'
          /\ strip'.pixels = AllBlack
          /\ strip'.shown = AllBlack]_vars

\* mode=off arrived while the LEDs were lit, and the first loop iteration
\* afterwards has blanked them
C13_Witness ==
  /\ stripState.effect = "Off"
  /\ ~offDirty
  /\ last.op = "loop"
  /\ last.wasLit
  /\ last.frames = <<AllBlack>>
  /\ last.branch = "Off"
  /\ strip.shown = AllBlack

\* the setMode calls of a request that changed the effect
ModeSwitches(calls) ==
  {i \in DOMAIN calls : calls[i].fn = "setMode" /\ calls[i].ret}

\* C15 as claimed: when setMode has changed the effect, no animation is in
\* flight and the snake head is 0.
C15_SwitchResetsTransientState ==
  [][last'.op = "control" =>
       LET calls == ControlCalls(Globals, last'.req)
       IN \A i \in ModeSwitches(calls) :
            /\ ~IsAnimating(calls[i].post)
            /\ calls[i].post.snakeHead = 0]_vars

\* C15 as amended: when setMode has changed the effect, no animation is in
\* flight and snakeDirty is set, the head being left as it was; and a loop
\* iteration in Snake that finds snakeDirty set resets the head to 0 before
\* it draws, so that it ends with the head one step from 0.
C15_SwitchMarksSnakeForReset ==
  [][/\ last'.op = "control" =>
          LET calls == ControlCalls(Globals, last'.req)
          IN \A i \in ModeSwitches(calls) :
               /\ ~IsAnimating(calls[i].post)
               /\ calls[i].post.animations.remaining = 0
               /\ calls[i].post.snakeDirty
               /\ calls[i].post.snakeHead = calls[i].pre.snakeHead
               /\ snakeDirty'
     /\ (last'.op = "loop" /\ stripState.effect = "Snake" /\ snakeDirty) =>
          /\ last'.reset
          /\ last'.stepped
          /\ ~snakeDirty'
          /\ snakeHead' = NextSnakeHead(0, pixelCount)]_vars

\* mode=solid arrived while the snake was past pixel 0: the head is still
\* there, with snakeDirty set
C15_Witness ==
  /\ last.op = "control"
  /\ hasParam(last.req, "mode")
  /\ last.changed
  /\ stripState.effect = "Solid"
  /\ snakeHead > 0
  /\ snakeDirty
  /\ ~IsAnimating(Globals)

\* the brightness-scaled base color of the snake, and the frame with the
\* segment at head h clipped to the active range
SnakeBase == applyBrightness(stripState.solidColor, stripState.brightness)
SegmentColor(offset) ==
  scaleColor(SnakeBase, SnakeSegmentLength - offset, SnakeSegmentLength)
ClippedSegment(h, count) ==
  [p \in Pixels |->
     IF p >= h /\ p < h + SnakeSegmentLength /\ p < count
       THEN SegmentColor(p - h) ELSE Black]

\* the head a snake step of this loop iteration draws from, and its frame
StepHead == IF last'.reset THEN 0 ELSE snakeHead
StepFrame == last'.frames[Len(last'.frames)]
SnakeStep == last'.op = "loop" /\ last'.stepped

\* C16 as claimed: the head is within 0..pixelCount-1 in every state, and a
\* snake step taken after Snake was entered or the pixel count changed draws
\* the segment from head 0.
C16_HeadAlwaysInRange ==
  /\ [](snakeHead \in 0..(pixelCount - 1))
  /\ [][(SnakeStep /\ snakeDirty) =>
          (StepHead = 0 /\ StepFrame = ClippedSegment(0, pixelCount))]_vars

\* C16 as amended: while snakeDirty is false the head is within
\* 0..pixelCount-1; every snake step draws from a head within that range and
\* leaves the head within it; and a step taken with snakeDirty set (after
\* Snake was entered, or the pixel count, brightness or color changed) draws
\* the segment from head 0.
C16_HeadInRangeWhenClean ==
  /\ [](~snakeDirty => snakeHead \in 0..(pixelCount - 1))
  /\ [][SnakeStep =>
          /\ StepHead \in 0..(pixelCount - 1)
          /\ snakeHead' \in 0..(pixelCount - 1)
          /\ snakeDirty =>
               (StepHead = 0 /\ StepFrame = ClippedSegment(0, pixelCount))]_vars

\* the count was reduced below the head of a running snake, and the next
\* iteration has drawn the segment from pixel 0
C16_Witness ==
  /\ last.op = "loop"
  /\ last.staleHead
  /\ last.reset
  /\ last.stepped
  /\ stripState.effect = "Snake"
  /\ pixelCount = 3
  /\ snakeHead = 1
  /\ strip.shown[0] # Black

\* channel by channel, color a is no brighter than color b
NoBrighter(a, b) == a.R <= b.R /\ a.G <= b.G /\ a.B <= b.B

\* the pixel the segment's offset falls on: head + offset, or that position
\* wrapped into the active range
RunPixels(h, offset, count) ==
  {h + offset, (h + offset) % count} \cap Pixels

\* C17 as claimed: every snake step leaves a run of SnakeSegmentLength pixels
\* from the head, the pixel at each offset holding the base color scaled by
\* 1 - offset/SnakeSegmentLength, also when the head is within
\* SnakeSegmentLength of the end of the active range.
C17_FullSegmentOnEveryStep ==
  [][SnakeStep =>
       \A offset \in 0..(SnakeSegmentLength - 1) :
         \E p \in RunPixels(StepHead, offset, pixelCount) :
           StepFrame[p] = SegmentColor(offset)]_vars

\* C17 as amended: every snake step latches a frame in which pixel
\* head+offset, for each offset below SnakeSegmentLength with
\* head+offset < pixelCount, holds the base color scaled by
\* 1 - offset/SnakeSegmentLength, and every other pixel is black: the run is
\* cut off at the end of the active range.  The intensity does not grow with
\* the offset, and the buffer and the LEDs hold that frame.
C17_ClippedSegmentOnEveryStep ==
  [][SnakeStep =>
       /\ StepFrame = ClippedSegment(StepHead, pixelCount)
       /\ strip'.pixels = StepFrame
       /\ strip'.shown = StepFrame
       /\ \A offset \in 0..(SnakeSegmentLength - 1) :
            (StepHead + offset < pixelCount) =>
              StepFrame[StepHead + offset] = SegmentColor(offset)
       /\ \A p \in Pixels :
            (p < StepHead \/ p >= StepHead + SnakeSegmentLength) =>
              StepFrame[p] = Black
       /\ \A o1, o2 \in 0..(SnakeSegmentLength - 1) :
            o1 <= o2 => NoBrighter(SegmentColor(o2), SegmentColor(o1))]_vars

\* a step drew the segment from the last active pixel of a strip of six: only
\* that pixel is lit, at the full base color
C17_Witness ==
  /\ last.op = "loop"
  /\ last.stepped
  /\ pixelCount = MaxPixelCount
  /\ snakeHead = 0
  /\ snakeSteps = pixelCount
  /\ strip.shown[pixelCount - 1] # Black
  /\ strip.shown[pixelCount - 1] =
       applyBrightness(stripState.solidColor, stripState.brightness)
  /\ BlackBelow(strip.shown, pixelCount - 1)

\* C18: an animation is in flight only while the effect is Fade, so after
\* every loop iteration in Solid, Snake or Off the animator is idle; and a
\* loop iteration takes the branch of the current effect and no other: a
\* blend is started or completed only in the Fade branch, the snake is reset
\* or stepped only in the Snake branch.
C18_AnimationOnlyInFade ==
  /\ IsAnimating(Globals) => stripState.effect = "Fade"
  /\ animations.remaining > 0 => stripState.effect = "Fade"
  /\ last.op = "loop" =>
       /\ last.branch = stripState.effect
       /\ stripState.effect # "Fade" =>
            (~IsAnimating(Globals) /\ ~last.started /\ ~last.completed)
       /\ stripState.effect # "Snake" => (~last.reset /\ ~last.stepped)
       /\ (stripState.effect \in {"Solid", "Off"}) => Len(last.frames) <= 1

\* a blend was started in Fade and cut short by a switch to Solid; the loop
\* iteration in Solid has drawn the solid color with the animator idle
C18_Witness ==
  /\ last.op = "loop"
  /\ last.branch = "Solid"
  /\ last.frames # <<>>
  /\ animations.duration > 0
  /\ fadeChannels.EndingColor # Black
  /\ strip.shown[0] # fadeChannels.EndingColor
  /\ ~IsAnimating(Globals)

\* ------------------------------------------------------------------------
\* Fade under fairness: the Arduino core calls loop() forever; the requests
\* served are those that leave the effect at Fade
\* ------------------------------------------------------------------------
FadeRequests ==
  {("brightness" :> b) : b \in {<<"0">>, <<"3","0","0">>}}
  \cup {("count" :> <<"3">>)}

FadeNext == (\E req \in FadeRequests : Control(req)) \/ Loop

FadeSpec == Init /\ [][FadeNext]_vars /\ WF_vars(Loop)

CycleStarted == last.op = "loop" /\ last.started
CycleCompleted == last.op = "loop" /\ last.completed

\* C19: a loop iteration in Fade that finds the animator idle starts a blend
\* and leaves it in flight, so the animator is idle after an iteration only
\* when that iteration completed a blend; an iteration that completes a
\* blend leaves the buffer at the blend's EndingColor; and while the effect
\* stays Fade, blends complete and new blends start again and again.
C19_FadePerpetual ==
  /\ [](/\ (last.op = "loop" /\ stripState.effect = "Fade"
               /\ ~last.wasAnimating) =>
              (last.started /\ IsAnimating(Globals))
        /\ (last.op = "loop" /\ stripState.effect = "Fade"
               /\ ~IsAnimating(Globals)) =>
              (last.completed /\ last.wasAnimating)
        /\ (last.op = "loop" /\ last.completed) =>
              /\ stripState.effect = "Fade"
              /\ ~IsAnimating(Globals)
              /\ ActiveAre(strip.pixels, pixelCount, fadeChannels.EndingColor))
  /\ []<>(stripState.effect # "Fade" \/ CycleCompleted)
  /\ []<>(stripState.effect # "Fade" \/ CycleStarted)

\* with every request served and the effect still Fade, a blend has been
\* completed and the next one started from its end point
C19_Witness ==
  /\ requests = MaxRequests
  /\ stripState.effect = "Fade"
  /\ CycleStarted
  /\ IsAnimating(Globals)
  /\ fadeChannels.StartingColor # Black
  /\ strip.shown[0] = fadeChannels.StartingColor

\* ------------------------------------------------------------------------
\* Brightness scaling over its whole domain: the strip state after a request
\* for Solid with any brightness and any gray level, then rendered by loop()
\* ------------------------------------------------------------------------
Levels == 0..255

ScaleGlobals(b, v) ==
  LET m == applyModeFromString(InitGlobals, <<"s","o","l","i","d">>).g
      s == setBrightness(m, BrightnessArg(b)).g
  IN setSolidColor(s, ChannelArg(v), ChannelArg(v), ChannelArg(v)).g

\* the program variables hold the globals g
StartFrom(g) ==
  /\ stripState = g.stripState
  /\ pixelCount = g.pixelCount
  /\ fadeToColor = g.fadeToColor
  /\ snakeDirty = g.snakeDirty
  /\ snakeHead = g.snakeHead
  /\ snakeStepAge = g.snakeStepAge
  /\ fadeChannels = g.fadeChannels
  /\ solidDirty = g.solidDirty
  /\ offDirty = g.offDirty
  /\ animations = g.animations
  /\ strip = g.strip

ScaleInit ==
  \E b \in Levels, v \in Levels :
    /\ StartFrom(ScaleGlobals(b, v))
    /\ snakeSteps = 0
    /\ last = [NoLast EXCEPT !.op = "control", !.changed = TRUE,
                             !.payload = buildStateJson(ScaleGlobals(b, v))]
    /\ requests = 1
    /\ loopPc = AtTop

ScaleSpec == ScaleInit /\ [][Loop]_vars

\* C14: for every brightness and every channel value, no channel of
\* applyBrightness(color) exceeds the input channel; the result does not get
\* darker when the brightness is raised by one; brightness 0 gives black and
\* brightness 255 the input color; and the Solid frame on the LEDs is that
\* result.
C14_BrightnessScale ==
  LET b == stripState.brightness
      c == stripState.solidColor
      out == applyBrightness(c, b)
  IN /\ NoBrighter(out, c)
     /\ NoBrighter(Black, out)
     /\ b < 255 => NoBrighter(out, applyBrightness(c, b + 1))
     /\ \A b2 \in {0, 1, 127, 128, 254, 255} :
          IF b <= b2 THEN NoBrighter(out, applyBrightness(c, b2))
                     ELSE NoBrighter(applyBrightness(c, b2), out)
     /\ b = 0 => out = Black
     /\ b = 255 => out = c
     /\ (last.op = "loop" /\ stripState.effect = "Solid") =>
          ActiveAre(strip.shown, pixelCount, out)

\* gray level 200 at brightness 128 is on the LEDs as level 50
C14_Witness ==
  /\ last.op = "loop"
  /\ stripState.effect = "Solid"
  /\ stripState.brightness = 128
  /\ stripState.solidColor = RgbColor(200, 200, 200)
  /\ strip.shown[0] = RgbColor(50, 50, 50)

\* ------------------------------------------------------------------------
\* Requests served while loop() is inside an iteration.  The handler runs in
\* the web server's task, so a request can be served between two statements
\* of ensureEffectIsRunning.  The iteration is taken in steps: the dispatch
\* up to the first call that renders, the three statements of
\* applySolidColor and turnStripOff, and the delivery of an animation tick to
\* BlendAnimUpdate.  The Snake branch is taken in one step.
\* ------------------------------------------------------------------------
AsyncRequests ==
  {("mode" :> m) : m \in {<<"s","o","l","i","d">>, <<"o","f","f">>,
                          <<"f","a","d","e">>, <<"s","n","a","k","e">>}}
  \cup {("brightness" :> <<"3","0","0">>)}
  \cup {("count" :> <<"3">>)}
  \cup {("r" :> <<"2","5","5">>) @@ ("g" :> <<"0">>) @@ ("b" :> <<"0">>)}

\* animations.UpdateAnimations() up to the call of the animation's callback:
\* [g, pc], pc telling whether and with which progress it is called
UpdateAnimationsTick(g) ==
  LET a == g.animations
      delta == a.tickAge
  IN IF delta < 1 THEN [g |-> g, pc |-> AtTop]
     ELSE IF a.remaining > delta
       THEN [g |-> g,
             pc |-> [at |-> "blend", num |-> a.duration - a.remaining,
                     den |-> a.duration, step |-> delta]]
     ELSE IF a.remaining > 0
       THEN [g |-> [g EXCEPT !.animations.remaining = 0,
                             !.animations.active = U16(a.active - 1)],
             pc |-> [at |-> "blend", num |-> 1, den |-> 1, step |-> 0]]
     ELSE [g |-> [g EXCEPT !.animations.tickAge = 0], pc |-> AtTop]

\* what a step of loop() reports
Stepped(op) ==
  [NoLast EXCEPT !.op = op, !.payload = last.payload,
                 !.wasAnimating = IsAnimating(Globals),
                 !.wasLit = Lit(Globals)]

\* ensureEffectIsRunning() from the switch to the first rendering call
AsyncDispatch ==
  /\ loopPc = AtTop
  /\ \E hue \in IF StartsFade(Globals) THEN Hues ELSE {0},
        time \in IF StartsFade(Globals) THEN FadeTimes ELSE {FadeTimeMin},
        delay \in 1..MaxLoopDelay :
       LET effect == stripState.effect
           idle == IF IsAnimating(Globals) THEN StopAll(Globals) ELSE Globals
           d == [Globals EXCEPT !.offDirty = TRUE, !.solidDirty = TRUE]
           s == IF ~IsAnimating(d)
                  THEN FadeInFadeOutRinseRepeat(
                         d, brightnessToLuminance(d.stripState.brightness),
                         hue, time)
                  ELSE d
       IN \E u \in {UpdateAnimationsTick(s)},
             r \in {runSnakeEffect([idle EXCEPT !.offDirty = TRUE,
                                                !.solidDirty = TRUE])} :
            /\ CASE effect = "Fade" ->
                      IF u.pc = AtTop
                        THEN Assign(AdvanceTime(Show(u.g), delay)) /\ loopPc' = AtTop
                        ELSE Assign(u.g) /\ loopPc' = u.pc
                 [] effect = "Solid" ->
                      IF idle.solidDirty
                        THEN Assign(idle) /\ loopPc' = [AtTop EXCEPT !.at = "solidWrite"]
                        ELSE Assign(AdvanceTime(idle, delay)) /\ loopPc' = AtTop
                 [] effect = "Off" ->
                      IF idle.offDirty
                        THEN Assign(idle) /\ loopPc' = [AtTop EXCEPT !.at = "offWrite"]
                        ELSE Assign(AdvanceTime(idle, delay)) /\ loopPc' = AtTop
                 [] effect = "Snake" ->
                      Assign(AdvanceTime(r.g, delay)) /\ loopPc' = AtTop
            /\ last' = [Stepped("dispatch") EXCEPT
                          !.branch = effect,
                          !.started = (effect = "Fade" /\ ~IsAnimating(d)),
                          !.reset = (effect = "Snake" /\ r.reset),
                          !.stepped = (effect = "Snake" /\ r.stepped)]
            /\ snakeSteps' = IF effect = "Snake"
                               THEN CountSteps(snakeSteps, r.reset, r.stepped)
                               ELSE snakeSteps
            /\ UNCHANGED requests

\* the callback of the tick, then the rest of UpdateAnimations, strip.Show()
\* and delay(1)
AsyncBlend ==
  /\ loopPc.at = "blend"
  /\ \E delay \in 1..MaxLoopDelay :
     \E b \in {BlendAnimUpdate(Globals, loopPc.num, loopPc.den)} :
     \E st \in {[b EXCEPT !.animations.remaining =
                            IF loopPc.step > 0 THEN U16(@ - loopPc.step) ELSE @,
                          !.animations.tickAge = 0]} :
       /\ Assign(AdvanceTime(Show(st), delay))
       /\ last' = [Stepped("blend") EXCEPT
                     !.branch = "Fade",
                     !.blend = LinearBlend(fadeChannels.StartingColor,
                                           fadeChannels.EndingColor,
                                           loopPc.num, loopPc.den),
                     !.frames = ShowFrames(st, <<>>),
                     !.completed = (loopPc.step = 0)]
  /\ loopPc' = AtTop
  /\ UNCHANGED <<snakeSteps, requests>>

\* writeColorToActivePixels(...) of applySolidColor or turnStripOff
AsyncWrite ==
  /\ loopPc.at \in {"solidWrite", "offWrite"}
  /\ Assign(writeColorToActivePixels(
              Globals,
              IF loopPc.at = "solidWrite"
                THEN applyBrightness(stripState.solidColor, stripState.brightness)
                ELSE Black))
  /\ loopPc' = [loopPc EXCEPT !.at = IF @ = "solidWrite" THEN "solidShow"
                                     ELSE "offShow"]
  /\ last' = Stepped("write")
  /\ UNCHANGED <<snakeSteps, requests>>

\* strip.Show() of applySolidColor or turnStripOff
AsyncShow ==
  /\ loopPc.at \in {"solidShow", "offShow"}
  /\ Assign(Show(Globals))
  /\ loopPc' = [loopPc EXCEPT !.at = IF @ = "solidShow" THEN "solidClear"
                                     ELSE "offClear"]
  /\ last' = [Stepped("show") EXCEPT !.frames = ShowFrames(Globals, <<>>)]
  /\ UNCHANGED <<snakeSteps, requests>>

\* the two flag assignments that end applySolidColor or turnStripOff, then
\* delay(1)
AsyncClear ==
  /\ loopPc.at \in {"solidClear", "offClear"}
  /\ \E delay \in 1..MaxLoopDelay :
       Assign(AdvanceTime(
                IF loopPc.at = "solidClear"
                  THEN [Globals EXCEPT !.solidDirty = FALSE, !.offDirty = TRUE]
                  ELSE [Globals EXCEPT !.offDirty = FALSE, !.solidDirty = TRUE],
                delay))
  /\ loopPc' = AtTop
  /\ last' = Stepped("clear")
  /\ UNCHANGED <<snakeSteps, requests>>

AsyncNext ==
  \/ \E req \in AsyncRequests : Control(req)
  \/ AsyncDispatch
  \/ AsyncBlend
  \/ AsyncWrite
  \/ AsyncShow
  \/ AsyncClear

AsyncSpec == Init /\ [][AsyncNext]_vars

\* C12: in every state where the effect is Solid, Snake or Off,
\* BlendAnimUpdate leaves the globals, the pixel buffer among them, as they
\* are, whatever the progress of the tick; a tick delivered after a request
\* switched the mode away from Fade changes neither the buffer nor the LEDs;
\* and a tick delivered in Fade writes its blend to the active pixels.
C12_LateTickWritesNothing ==
  /\ [](stripState.effect # "Fade" =>
          \A den \in 1..FadeTimeMax : \A num \in 0..den :
            BlendAnimUpdate(Globals, num, den) = Globals)
  /\ [][(last'.op = "blend" /\ stripState.effect # "Fade") =>
          (strip' = strip /\ last'.frames = <<>>)]_vars
  /\ [][(last'.op = "blend" /\ stripState.effect = "Fade") =>
          ActiveAre(strip'.pixels, pixelCount, last'.blend)]_vars

\* a tick was on its way when mode=solid was served; it was delivered in
\* Solid, and the buffer does not hold the color it computed
C12_Witness ==
  /\ last.op = "blend"
  /\ stripState.effect = "Solid"
  /\ last.blend # strip.pixels[0]
  /\ last.blend # Black
  /\ last.frames = <<>>

\* C20 as claimed: no invalidation is lost when requests are served between
\* the steps of a render.  Once every request has been served and loop() is
\* between two iterations in Solid with solidDirty false (so that no later
\* iteration draws anything), the LEDs show applyBrightness(solidColor) on
\* the active pixels, for the current color, brightness and pixel count, and
\* black beyond them.
C20_NoLostInvalidation ==
  (/\ requests = MaxRequests
   /\ loopPc = AtTop
   /\ stripState.effect = "Solid"
   /\ ~solidDirty) =>
    /\ ActiveAre(strip.shown, pixelCount,
                 applyBrightness(stripState.solidColor, stripState.brightness))
    /\ BlackFrom(strip.shown, pixelCount)

====
